---- MODULE Spec2Model ----
(***************************************************************************)
(* Model of src/src/models.py: the request schemas of the trading-bot      *)
(* backend and their field validators.                                     *)
(*                                                                         *)
(* A string is a sequence of Unicode code points, so that the character    *)
(* classes of the regular expressions are ranges of numbers exactly as in  *)
(* the source:                                                             *)
(*    9 TAB   10 LF   32 SP   34 "   35 #   37 %   38 &   39 '   43 +      *)
(*   45 -   46 .   47 /   48..57 0-9   59 ;   60 <   62 >   64 @           *)
(*   65..90 A-Z   95 _   97..122 a-z                                       *)
(*   231 c-cedilla 246 o-diaeresis 252 u-diaeresis 287 g-breve 305         *)
(*   dotless-i 351 s-cedilla, 199 214 220 286 304 350 their capitals       *)
(*   1632..1641 ARABIC-INDIC DIGITS (matched by \d, not by [0-9])          *)
(*                                                                         *)
(* The validators are pure functions of the field value.  The state        *)
(* machine receives one request at a time, runs one validator (or builds   *)
(* one model) on it and keeps the outcome until the response is sent.      *)
(* The library types (EmailStr, float, int coercion) run before the        *)
(* validators and are not part of this repository: the validators are      *)
(* modelled on every string, a superset of what the library lets through.  *)
(***************************************************************************)
EXTENDS Integers, Sequences, FiniteSets, TLC

VARIABLES pc, validator, raw, out, again

vars == <<pc, validator, raw, out, again>>

\* ---------------------------------------------------------------------
\* Bounds of the model
\* ---------------------------------------------------------------------

\* longest run of perturbing characters put before and after a core string
MaxPad == 1

\* ---------------------------------------------------------------------
\* Strings
\* ---------------------------------------------------------------------

Rep(c, n) == [i \in 1..n |-> c]

SeqsUpTo(A, n) == UNION {[1..k -> A] : k \in 0..n}

\* every input is  pre \o core \o post  with short pre and post
Padded(Cores, Alpha) ==
    {pre \o core \o post : pre \in SeqsUpTo(Alpha, MaxPad),
                           core \in Cores,
                           post \in SeqsUpTo(Alpha, MaxPad)}

\* str.isspace(), which is also the class \s of a str pattern
IsSpace(c) == c \in (9..13) \cup (28..32) \cup {133, 160}

\* [A-Za-z]
IsAsciiLetter(c) == c \in (65..90) \cup (97..122)

\* [A-Z]
IsAsciiUpper(c) == c \in 65..90

\* [0-9]
IsAsciiDigit(c) == c \in 48..57

\* \d of a str pattern: any Unicode decimal digit
IsDigit(c) == c \in (48..57) \cup (1632..1641)

\* [a-zA-Z0-9]
IsAlnum(c) == IsAsciiLetter(c) \/ IsAsciiDigit(c)

RECURSIVE lstrip(_)
lstrip(s) == IF s = <<>> THEN s
             ELSE IF IsSpace(Head(s)) THEN lstrip(Tail(s)) ELSE s

RECURSIVE rstrip(_)
rstrip(s) == IF s = <<>> THEN s
             ELSE IF IsSpace(s[Len(s)]) THEN rstrip(SubSeq(s, 1, Len(s) - 1))
             ELSE s

\* str.strip()
strip(s) == rstrip(lstrip(s))

\* str.lower() on the code points the model draws
lower_char(c) == IF c \in 65..90 THEN c + 32
                 ELSE IF c \in {199, 214, 220} THEN c + 32
                 ELSE IF c \in {286, 350} THEN c + 1
                 ELSE c

lower(s) == [i \in 1..Len(s) |-> lower_char(s[i])]

\* str.upper() on the code points the model draws
upper_char(c) == IF c \in 97..122 THEN c - 32
                 ELSE IF c \in {231, 246, 252} THEN c - 32
                 ELSE IF c \in {287, 351} THEN c - 1
                 ELSE c

upper(s) == [i \in 1..Len(s) |-> upper_char(s[i])]

\* str.replace(c, r) for a single character c: every occurrence, from the
\* left
RECURSIVE replace(_, _, _)
replace(s, c, r) ==
    IF \A i \in 1..Len(s) : s[i] # c THEN s
    ELSE LET i == CHOOSE k \in 1..Len(s) :
                      s[k] = c /\ \A j \in 1..(k - 1) : s[j] # c
         IN  SubSeq(s, 1, i - 1) \o r \o replace(SubSeq(s, i + 1, Len(s)), c, r)

\* html.escape(s, quote=True): & first, then < > " '
html_escape(s) ==
    LET s1 == replace(s, 38, <<38, 97, 109, 112, 59>>)          \* &amp;
        s2 == replace(s1, 60, <<38, 108, 116, 59>>)             \* &lt;
        s3 == replace(s2, 62, <<38, 103, 116, 59>>)             \* &gt;
        s4 == replace(s3, 34, <<38, 113, 117, 111, 116, 59>>)   \* &quot;
    IN  replace(s4, 39, <<38, 35, 120, 50, 55, 59>>)            \* &#x27;

\* The $ of re.match(r'^...$', s) matches at the end of the string and also
\* just before a newline that ends the string: the pattern between the
\* anchors has to match all of s, or all of s without its final newline.
before_final_newline(s) ==
    IF Len(s) >= 1 /\ s[Len(s)] = 10 THEN SubSeq(s, 1, Len(s) - 1) ELSE s

\* outcome of a validator: the returned value, or the ValueError message
Ok(v) == [ok |-> TRUE, value |-> v, error |-> ""]

Err(msg) == [ok |-> FALSE, value |-> <<>>, error |-> msg]

NoResult == [ok |-> FALSE, value |-> <<>>, error |-> "none"]

\* ---------------------------------------------------------------------
\* class UserRegister
\* ---------------------------------------------------------------------

\* [a-zA-Z0-9._%+-]
IsEmailLocal(c) == IsAlnum(c) \/ c \in {46, 95, 37, 43, 45}

\* [a-zA-Z0-9.-]
IsEmailDomain(c) == IsAlnum(c) \/ c \in {46, 45}

\* [a-zA-Z0-9._%+-]+@[a-zA-Z0-9.-]+\.[a-zA-Z]{2,}
EmailBody(s) ==
    \E i \in 2..Len(s) : \E j \in (i + 2)..(Len(s) - 2) :
        /\ s[i] = 64
        /\ s[j] = 46
        /\ \A k \in 1..(i - 1) : IsEmailLocal(s[k])
        /\ \A k \in (i + 1)..(j - 1) : IsEmailDomain(s[k])
        /\ \A k \in (j + 1)..Len(s) : IsAsciiLetter(s[k])

UserRegister_validate_email(v) ==
    LET email_str == strip(lower(v))
    IN  IF ~(EmailBody(email_str) \/ EmailBody(before_final_newline(email_str)))
        THEN Err("Invalid email format")
        ELSE Ok(email_str)

UserRegister_validate_password(v) ==
    IF Len(v) < 6 THEN Err("Password must be at least 6 characters")
    ELSE IF Len(v) > 128 THEN Err("Password too long")
    ELSE IF \/ ~(\E i \in 1..Len(v) : IsAsciiLetter(v[i]))
            \/ ~(\E i \in 1..Len(v) : IsDigit(v[i]))
         THEN Err("Password must contain at least one letter and one number")
    ELSE Ok(v)

\* [a-zA-ZğüşıöçĞÜŞİÖÇ\s\-\.\']
IsNameChar(c) ==
    \/ IsAsciiLetter(c)
    \/ c \in {287, 252, 351, 305, 246, 231, 286, 220, 350, 304, 214, 199}
    \/ IsSpace(c)
    \/ c \in {45, 46, 39}

NameBody(s) == Len(s) >= 1 /\ (\A i \in 1..Len(s) : IsNameChar(s[i]))

\* variant: the lengths are checked on the trimmed text, escaping comes last
UserRegister_validate_full_name_EscapeLast(v0) ==
    LET v == strip(v0)
    IN  IF Len(v) < 2 THEN Err("Full name must be at least 2 characters")
        ELSE IF Len(v) > 100 THEN Err("Full name too long")
        ELSE IF ~(NameBody(html_escape(v)) \/ NameBody(before_final_newline(html_escape(v))))
             THEN Err("Full name contains invalid characters")
        ELSE Ok(html_escape(v))

UserRegister_validate_full_name(v0) ==
    LET v == html_escape(strip(v0))
    IN  IF Len(v) < 2 THEN Err("Full name must be at least 2 characters")
        ELSE IF Len(v) > 100 THEN Err("Full name too long")
        ELSE IF ~(NameBody(v) \/ NameBody(before_final_newline(v)))
             THEN Err("Full name contains invalid characters")
        ELSE Ok(v)

\* ---------------------------------------------------------------------
\* class UserLogin
\* ---------------------------------------------------------------------

UserLogin_validate_email(v) == Ok(strip(lower(v)))

UserLogin_validate_password(v) ==
    IF Len(v) < 1 THEN Err("Password is required")
    ELSE IF Len(v) > 128 THEN Err("Password too long")
    ELSE Ok(v)

\* ---------------------------------------------------------------------
\* class PasswordReset
\* ---------------------------------------------------------------------

\* variant: the top-level domain is matched in capitals only
email_pattern_CapitalTld(s) ==
    \E i \in 2..Len(s) : \E j \in (i + 2)..(Len(s) - 2) :
        /\ s[i] = 64
        /\ s[j] = 46
        /\ \A k \in 1..(i - 1) : IsEmailLocal(s[k])
        /\ \A k \in (i + 1)..(j - 1) : IsEmailDomain(s[k])
        /\ \A k \in (j + 1)..Len(s) : IsAsciiUpper(s[k])

\* email_pattern, the same expression as in UserRegister
email_pattern(s) == EmailBody(s)

PasswordReset_validate_email(v) ==
    IF ~(email_pattern(v) \/ email_pattern(before_final_newline(v)))
    THEN Err("Invalid email format")
    ELSE Ok(lower(v))

\* ---------------------------------------------------------------------
\* class PasswordResetConfirm
\* ---------------------------------------------------------------------

\* [a-zA-Z0-9\-_]
IsTokenChar(c) == IsAlnum(c) \/ c \in {45, 95}

TokenBody(s) == Len(s) >= 1 /\ (\A i \in 1..Len(s) : IsTokenChar(s[i]))

PasswordResetConfirm_validate_token(v) ==
    IF ~(TokenBody(v) \/ TokenBody(before_final_newline(v)))
    THEN Err("Invalid token format")
    ELSE IF Len(v) < 10 \/ Len(v) > 200 THEN Err("Invalid token length")
    ELSE Ok(v)

\* variant: the upper limit is off by one
PasswordResetConfirm_validate_password_OffByOne(v) ==
    IF Len(v) < 6 THEN Err("Password must be at least 6 characters")
    ELSE IF \/ ~(\E i \in 1..Len(v) : IsAsciiLetter(v[i]))
            \/ ~(\E i \in 1..Len(v) : IsDigit(v[i]))
         THEN Err("Password must contain at least one letter and one number")
    ELSE IF Len(v) >= 128 THEN Err("Password too long")
    ELSE Ok(v)

PasswordResetConfirm_validate_password(v) ==
    IF Len(v) < 6 THEN Err("Password must be at least 6 characters")
    ELSE IF \/ ~(\E i \in 1..Len(v) : IsAsciiLetter(v[i]))
            \/ ~(\E i \in 1..Len(v) : IsDigit(v[i]))
         THEN Err("Password must contain at least one letter and one number")
    ELSE IF Len(v) > 128 THEN Err("Password too long")
    ELSE Ok(v)

\* ---------------------------------------------------------------------
\* class APIKeysUpdate
\* ---------------------------------------------------------------------

AlnumBody(s) == Len(s) >= 1 /\ (\A i \in 1..Len(s) : IsAlnum(s[i]))

\* variant: the character class of the reset token is used
validate_api_credentials_TokenClass(v0) ==
    LET v == strip(v0)
    IN  IF Len(v) < 10 \/ Len(v) > 200
        THEN Err("API credential length must be between 10-200 characters")
        ELSE IF ~(TokenBody(v) \/ TokenBody(before_final_newline(v)))
             THEN Err("API credentials contain invalid characters")
        ELSE Ok(v)

validate_api_credentials(v0) ==
    LET v == strip(v0)
    IN  IF Len(v) < 10 \/ Len(v) > 200
        THEN Err("API credential length must be between 10-200 characters")
        ELSE IF ~(AlnumBody(v) \/ AlnumBody(before_final_newline(v)))
             THEN Err("API credentials contain invalid characters")
        ELSE Ok(v)

\* the model is built when every field validates; the one validator is
\* registered for both fields
APIKeysUpdate(api_key, api_secret) ==
    LET k == validate_api_credentials(api_key)
        s == validate_api_credentials(api_secret)
    IN  [ok |-> k.ok /\ s.ok, api_key |-> k, api_secret |-> s]

\* ---------------------------------------------------------------------
\* class BotControl
\* ---------------------------------------------------------------------

\* Optional[str]
None == [isNone |-> TRUE, str |-> <<>>]

Str(s) == [isNone |-> FALSE, str |-> s]

validate_action(v) ==
    IF v \notin {"start", "stop"}
    THEN [ok |-> FALSE, value |-> "", error |-> "Action must be either \"start\" or \"stop\""]
    ELSE [ok |-> TRUE, value |-> v, error |-> ""]

\* [A-Z]{2,10}USDT
SymbolBody(s) ==
    /\ Len(s) - 4 >= 2
    /\ Len(s) - 4 <= 10
    /\ SubSeq(s, Len(s) - 3, Len(s)) = <<85, 83, 68, 84>>
    /\ \A k \in 1..(Len(s) - 4) : IsAsciiUpper(s[k])

\* variant: the symbol is trimmed but not uppercased
validate_symbol_NoUpper(v0) ==
    IF v0.isNone THEN [ok |-> TRUE, value |-> None, error |-> ""]
    ELSE LET v == strip(v0.str)
         IN  IF Len(v) < 3 \/ Len(v) > 20
             THEN [ok |-> FALSE, value |-> None,
                   error |-> "Symbol length must be between 3-20 characters"]
             ELSE IF ~(SymbolBody(v) \/ SymbolBody(before_final_newline(v)))
                  THEN [ok |-> FALSE, value |-> None,
                        error |-> "Invalid symbol format. Must be like BTCUSDT"]
             ELSE [ok |-> TRUE, value |-> Str(v), error |-> ""]

validate_symbol(v0) ==
    IF v0.isNone THEN [ok |-> TRUE, value |-> None, error |-> ""]
    ELSE LET v == strip(upper(v0.str))
         IN  IF Len(v) < 3 \/ Len(v) > 20
             THEN [ok |-> FALSE, value |-> None,
                   error |-> "Symbol length must be between 3-20 characters"]
             ELSE IF ~(SymbolBody(v) \/ SymbolBody(before_final_newline(v)))
                  THEN [ok |-> FALSE, value |-> None,
                        error |-> "Invalid symbol format. Must be like BTCUSDT"]
             ELSE [ok |-> TRUE, value |-> Str(v), error |-> ""]

BotControl(action, symbol) ==
    LET a == validate_action(action)
        s == validate_symbol(symbol)
    IN  [ok |-> a.ok /\ s.ok, action |-> a, symbol |-> s]

\* ---------------------------------------------------------------------
\* class BotSettings
\* ---------------------------------------------------------------------

\* A float is a finite number (whole values are drawn), an infinity or NaN.
\* Every ordered comparison with NaN is false.
Fin(x) == [k |-> "fin", x |-> x]

NaN == [k |-> "nan", x |-> 0]

Inf == [k |-> "inf", x |-> 0]

NegInf == [k |-> "ninf", x |-> 0]

\* v < n  and  v > n  for a float v and a finite bound n
FloatLt(v, n) == v.k = "ninf" \/ (v.k = "fin" /\ v.x < n)

FloatGt(v, n) == v.k = "inf" \/ (v.k = "fin" /\ v.x > n)

FOk(v) == [ok |-> TRUE, value |-> v, error |-> ""]

validate_order_size(v) ==
    IF FloatLt(v, 10) \/ FloatGt(v, 1000)
    THEN [ok |-> FALSE, value |-> v, error |-> "Order size must be between 10-1000 USDT"]
    ELSE FOk(v)

validate_leverage(v) ==
    IF v < 1 \/ v > 20
    THEN [ok |-> FALSE, value |-> v, error |-> "Leverage must be between 1-20"]
    ELSE FOk(v)

validate_stop_loss(v) ==
    IF FloatLt(v, 1) \/ FloatGt(v, 10)
    THEN [ok |-> FALSE, value |-> v, error |-> "Stop loss must be between 1-10%"]
    ELSE FOk(v)

validate_take_profit(v) ==
    IF FloatLt(v, 2) \/ FloatGt(v, 20)
    THEN [ok |-> FALSE, value |-> v, error |-> "Take profit must be between 2-20%"]
    ELSE FOk(v)

validate_timeframe(v) ==
    IF v \notin {"1m", "5m", "15m", "1h", "4h"}
    THEN [ok |-> FALSE, value |-> v, error |-> "Timeframe must be one of: 1m, 5m, 15m, 1h, 4h"]
    ELSE FOk(v)

\* a field of the request: given with a value, or missing
Given(x) == [given |-> TRUE, val |-> x]

Missing(x) == [given |-> FALSE, val |-> x]

\* the field defaults of the class; a validator runs only on a given field
BotSettings(req) ==
    LET o == IF req.order_size_usdt.given
             THEN validate_order_size(req.order_size_usdt.val) ELSE FOk(Fin(25))
        l == IF req.leverage.given
             THEN validate_leverage(req.leverage.val) ELSE FOk(10)
        s == IF req.stop_loss_percent.given
             THEN validate_stop_loss(req.stop_loss_percent.val) ELSE FOk(Fin(4))
        t == IF req.take_profit_percent.given
             THEN validate_take_profit(req.take_profit_percent.val) ELSE FOk(Fin(8))
        f == IF req.timeframe.given
             THEN validate_timeframe(req.timeframe.val) ELSE FOk("15m")
    IN  [ok |-> o.ok /\ l.ok /\ s.ok /\ t.ok /\ f.ok,
         order_size_usdt |-> o, leverage |-> l, stop_loss_percent |-> s,
         take_profit_percent |-> t, timeframe |-> f]

\* ---------------------------------------------------------------------
\* Requests
\* ---------------------------------------------------------------------

\* "" "a@b.co" "A@B.CO" "a@b.c" "ab.co" "a.b@c-d.io", padded with
\* SP LF "A" "@" "." "1"
EmailInputs ==
    Padded({<<>>, <<97, 64, 98, 46, 99, 111>>, <<65, 64, 66, 46, 67, 79>>,
            <<97, 64, 98, 46, 99>>, <<97, 98, 46, 99, 111>>,
            <<97, 46, 98, 64, 99, 45, 100, 46, 105, 111>>},
           {32, 10, 65, 64, 46, 49})

\* runs of "a" and of "1" around both length limits, padded with
\* "a" "1" "!" SP and the Arabic-Indic digit three
PasswordInputs ==
    Padded({Rep(c, n) : c \in {97, 49}, n \in {0, 4, 5, 126, 127, 128}},
           {97, 49, 33, 32, 1635})

\* "" "Al" "O'Brien" "<b>Al</b>" "A" "a TAB b" "Ayse Oz" with Turkish letters,
\* and runs of "a" around the upper limit, padded with
\* SP ' < > & " "a" "1"
FullNameInputs ==
    Padded({<<>>, <<65, 108>>, <<79, 39, 66, 114, 105, 101, 110>>,
            <<60, 98, 62, 65, 108, 60, 47, 98, 62>>, <<65>>, <<97, 9, 98>>,
            <<65, 121, 351, 101, 32, 214, 122>>}
           \cup {Rep(97, n) : n \in {94, 98, 99, 100}},
           {32, 39, 60, 62, 38, 34, 97, 49})

\* "abc-123-xyz9" "abc_123-XY" and runs of "a" around both length limits,
\* padded with "a" "-" "_" LF SP "!" "9"
TokenInputs ==
    Padded({<<97, 98, 99, 45, 49, 50, 51, 45, 120, 121, 122, 57>>,
            <<97, 98, 99, 95, 49, 50, 51, 45, 88, 89>>}
           \cup {Rep(97, n) : n \in {0, 8, 9, 10, 198, 199, 200}},
           {97, 45, 95, 10, 32, 33, 57})

\* "abc-123-xyz" "abc123XYZ9" and runs of "a" around both length limits,
\* padded with "a" "-" "_" LF SP "9"
CredentialInputs ==
    Padded({<<97, 98, 99, 45, 49, 50, 51, 45, 120, 121, 122>>,
            <<97, 98, 99, 49, 50, 51, 88, 89, 90, 57>>}
           \cup {Rep(97, n) : n \in {0, 8, 9, 10, 198, 199, 200}},
           {97, 45, 95, 10, 32, 57})

\* "abc123XYZ9"
GoodCredential == <<97, 98, 99, 49, 50, 51, 88, 89, 90, 57>>

\* "btcusdt" "BTCUSD" "BTCUSDT" "usdt" "aUSDT" "BTC1USDT", "USDT" after
\* nine and after ten "A", and a run of nineteen "A", padded with
\* "a" "A" SP LF "1" "T"
SymbolInputs ==
    Padded({<<98, 116, 99, 117, 115, 100, 116>>, <<66, 84, 67, 85, 83, 68>>,
            <<66, 84, 67, 85, 83, 68, 84>>, <<117, 115, 100, 116>>,
            <<97, 85, 83, 68, 84>>, <<66, 84, 67, 49, 85, 83, 68, 84>>,
            Rep(65, 9) \o <<85, 83, 68, 84>>,
            Rep(65, 10) \o <<85, 83, 68, 84>>, Rep(65, 19)},
           {97, 65, 32, 10, 49, 84})

ActionInputs == {"start", "stop", "buy", "START", ""}

OrderSizeInputs == {Fin(9), Fin(10), Fin(1000), Fin(1001), NaN, Inf, NegInf}

LeverageInputs == {0, 1, 20, 21, 25}

StopLossInputs == {Fin(0), Fin(1), Fin(10), Fin(11), NaN}

TakeProfitInputs == {Fin(1), Fin(2), Fin(20), Fin(21), NaN}

TimeframeInputs == {"1m", "5m", "15m", "1h", "4h", "30m"}

Field(S, d) == {Missing(d)} \cup {Given(x) : x \in S}

\* ---------------------------------------------------------------------
\* The request handler
\* ---------------------------------------------------------------------

Init ==
    /\ pc = "idle"
    /\ validator = "none"
    /\ raw = <<>>
    /\ out = NoResult
    /\ again = NoResult

RegisterEmail ==
    /\ pc = "idle"
    /\ \E v \in EmailInputs :
        /\ raw' = v
        /\ out' = UserRegister_validate_email(v)
    /\ validator' = "UserRegister.email"
    /\ pc' = "done"
    /\ UNCHANGED again

RegisterPassword ==
    /\ pc = "idle"
    /\ \E v \in PasswordInputs :
        /\ raw' = v
        /\ out' = UserRegister_validate_password(v)
    /\ validator' = "UserRegister.password"
    /\ pc' = "done"
    /\ UNCHANGED again

RegisterFullName ==
    /\ pc = "idle"
    /\ \E v \in FullNameInputs :
        /\ raw' = v
        /\ out' = UserRegister_validate_full_name(v)
    /\ validator' = "UserRegister.full_name"
    /\ pc' = "done"
    /\ UNCHANGED again

LoginEmail ==
    /\ pc = "idle"
    /\ \E v \in EmailInputs :
        /\ raw' = v
        /\ out' = UserLogin_validate_email(v)
    /\ validator' = "UserLogin.email"
    /\ pc' = "done"
    /\ UNCHANGED again

LoginPassword ==
    /\ pc = "idle"
    /\ \E v \in PasswordInputs :
        /\ raw' = v
        /\ out' = UserLogin_validate_password(v)
    /\ validator' = "UserLogin.password"
    /\ pc' = "done"
    /\ UNCHANGED again

ResetEmail ==
    /\ pc = "idle"
    /\ \E v \in EmailInputs :
        /\ raw' = v
        /\ out' = PasswordReset_validate_email(v)
    /\ validator' = "PasswordReset.email"
    /\ pc' = "done"
    /\ UNCHANGED again

ConfirmToken ==
    /\ pc = "idle"
    /\ \E v \in TokenInputs :
        /\ raw' = v
        /\ out' = PasswordResetConfirm_validate_token(v)
    /\ validator' = "PasswordResetConfirm.token"
    /\ pc' = "done"
    /\ UNCHANGED again

ConfirmPassword ==
    /\ pc = "idle"
    /\ \E v \in PasswordInputs :
        /\ raw' = v
        /\ out' = PasswordResetConfirm_validate_password(v)
    /\ validator' = "PasswordResetConfirm.new_password"
    /\ pc' = "done"
    /\ UNCHANGED again

\* the same string in both fields, or a well-formed one in the other field
UpdateAPIKeys ==
    /\ pc = "idle"
    /\ \E v \in CredentialInputs :
        \E p \in {<<v, v>>, <<v, GoodCredential>>, <<GoodCredential, v>>} :
            /\ raw' = [api_key |-> p[1], api_secret |-> p[2]]
            /\ out' = APIKeysUpdate(p[1], p[2])
    /\ validator' = "APIKeysUpdate"
    /\ pc' = "done"
    /\ UNCHANGED again

\* every symbol with a good action, every action with no symbol, with a
\* good one and with a bad one
ControlBot ==
    /\ pc = "idle"
    /\ \E p \in ({"start", "stop"} \X ({None} \cup {Str(v) : v \in SymbolInputs}))
                \cup (ActionInputs \X {None, Str(<<66, 84, 67, 85, 83, 68, 84>>),
                                       Str(<<66, 84, 67, 85, 83, 68>>)}) :
        /\ raw' = [action |-> p[1], symbol |-> p[2]]
        /\ out' = BotControl(p[1], p[2])
    /\ validator' = "BotControl"
    /\ pc' = "done"
    /\ UNCHANGED again

SetBot ==
    /\ pc = "idle"
    /\ \E o \in Field(OrderSizeInputs, Fin(0)) :
       \E l \in Field(LeverageInputs, 0) :
       \E s \in Field(StopLossInputs, Fin(0)) :
       \E t \in Field(TakeProfitInputs, Fin(0)) :
       \E f \in Field(TimeframeInputs, "") :
            LET req == [order_size_usdt |-> o, leverage |-> l,
                        stop_loss_percent |-> s, take_profit_percent |-> t,
                        timeframe |-> f]
            IN  /\ raw' = req
                /\ out' = BotSettings(req)
    /\ validator' = "BotSettings"
    /\ pc' = "done"
    /\ UNCHANGED again

EmailValidators == {"UserRegister.email", "UserLogin.email", "PasswordReset.email"}

\* the accepted value is handed to the same validator once more
Revalidate ==
    /\ pc = "done"
    /\ validator \in EmailValidators
    /\ out.ok
    /\ pc' = "redone"
    /\ again' = CASE validator = "UserRegister.email" ->
                         UserRegister_validate_email(out.value)
                  [] validator = "UserLogin.email" ->
                         UserLogin_validate_email(out.value)
                  [] validator = "PasswordReset.email" ->
                         PasswordReset_validate_email(out.value)
    /\ UNCHANGED <<validator, raw, out>>

\* the response is sent; nothing is kept between requests
Respond ==
    /\ pc \in {"done", "redone"}
    /\ pc' = "idle"
    /\ validator' = "none"
    /\ raw' = <<>>
    /\ out' = NoResult
    /\ again' = NoResult

Next ==
    \/ RegisterEmail
    \/ RegisterPassword
    \/ RegisterFullName
    \/ LoginEmail
    \/ LoginPassword
    \/ ResetEmail
    \/ ConfirmToken
    \/ ConfirmPassword
    \/ UpdateAPIKeys
    \/ ControlBot
    \/ SetBot
    \/ Revalidate
    \/ Respond

Spec == Init /\ [][Next]_vars

\* the handlers of one schema family at a time (the schemas share nothing)
NextPassword == RegisterPassword \/ LoginPassword \/ ConfirmPassword \/ Respond

SpecPassword == Init /\ [][NextPassword]_vars

NextFullName == RegisterFullName \/ Respond

SpecFullName == Init /\ [][NextFullName]_vars

NextToken == ConfirmToken \/ Respond

SpecToken == Init /\ [][NextToken]_vars

NextAPIKeys == UpdateAPIKeys \/ Respond

SpecAPIKeys == Init /\ [][NextAPIKeys]_vars

NextBotControl == ControlBot \/ Respond

SpecBotControl == Init /\ [][NextBotControl]_vars

NextBotSettings == SetBot \/ Respond

SpecBotSettings == Init /\ [][NextBotSettings]_vars

NextEmail == RegisterEmail \/ LoginEmail \/ ResetEmail \/ Revalidate \/ Respond

SpecEmail == Init /\ [][NextEmail]_vars

\* ---------------------------------------------------------------------
\* Properties
\* ---------------------------------------------------------------------

Ran(name) == pc \in {"done", "redone"} /\ validator = name

InLen(s, lo, hi) == Len(s) >= lo /\ Len(s) <= hi

\* C1: the registration password validator and the reset-confirm
\* new_password validator accept exactly the same inputs: a password is
\* accepted iff it has 6 to 128 characters, at least one ASCII letter and at
\* least one digit, and an accepted password is returned unchanged.
C1_SamePasswordRule ==
    (Ran("UserRegister.password") \/ Ran("PasswordResetConfirm.new_password")) =>
        /\ out.ok <=> /\ InLen(raw, 6, 128)
                      /\ \E i \in 1..Len(raw) : IsAsciiLetter(raw[i])
                      /\ \E i \in 1..Len(raw) : IsDigit(raw[i])
        /\ out.ok => out.value = raw

\* a 128-character password that starts with a space is accepted as it is
C1_Witness ==
    /\ Ran("PasswordResetConfirm.new_password")
    /\ out.ok
    /\ Len(raw) = 128
    /\ raw[1] = 32
    /\ out.value = raw

\* C2: every password longer than 128 characters is rejected with
\* 'Password too long' by both password validators, whatever its
\* characters, and the two validators report the same error for every
\* rejected input.
C2_TooLongWhateverTheCharacters ==
    (Ran("UserRegister.password") \/ Ran("PasswordResetConfirm.new_password")) =>
        /\ Len(raw) > 128 => out.error = "Password too long"
        /\ UserRegister_validate_password(raw).error
               = PasswordResetConfirm_validate_password(raw).error

\* the characters a full name may have: ASCII letters, the accented
\* letters, space, hyphen, period, apostrophe
IsPermittedNameChar(c) ==
    \/ c \in (65..90) \cup (97..122)
    \/ c \in {287, 252, 351, 305, 246, 231, 286, 220, 350, 304, 214, 199}
    \/ c \in {32, 45, 46, 39}

\* C3: validate_full_name accepts every name whose trimmed form has 2 to
\* 100 characters all drawn from the permitted set, apostrophe included,
\* and rejects every name with a character outside that set.
C3_PermittedNamesAccepted ==
    Ran("UserRegister.full_name") =>
        LET t == strip(raw)
        IN  /\ (InLen(t, 2, 100) /\ (\A i \in 1..Len(t) : IsPermittedNameChar(t[i]))) => out.ok
            /\ (\E i \in 1..Len(t) : ~IsPermittedNameChar(t[i])) => ~out.ok

\* < > & "
IsMarkup(c) == c \in {60, 62, 38, 34}

\* C4: the full name is escaped before its length and its characters are
\* checked: no input with a markup character is accepted, such an input
\* whose escaped form has 2 to 100 characters fails with 'Full name
\* contains invalid characters', and no accepted value has a markup
\* character.
C4_MarkupNeverAccepted ==
    Ran("UserRegister.full_name") =>
        /\ (\E i \in 1..Len(raw) : IsMarkup(raw[i])) => ~out.ok
        /\ ((\E i \in 1..Len(raw) : IsMarkup(raw[i])) /\ InLen(html_escape(strip(raw)), 2, 100))
               => out.error = "Full name contains invalid characters"
        /\ out.ok => ~(\E i \in 1..Len(out.value) : IsMarkup(out.value[i]))

\* a lone "<": one character before escaping, four after
C4_Witness ==
    /\ Ran("UserRegister.full_name")
    /\ (\E i \in 1..Len(raw) : IsMarkup(raw[i]))
    /\ Len(strip(raw)) < 2
    /\ InLen(html_escape(strip(raw)), 2, 100)
    /\ out.error = "Full name contains invalid characters"

\* C5: validate_token accepts a token iff all its characters are in
\* [A-Za-z0-9_-] and it has 10 to 200 characters; an accepted token has no
\* other character anywhere, the end included, and a token with another
\* character fails with 'Invalid token format'.
C5_TokenCharsetOnly ==
    Ran("PasswordResetConfirm.token") =>
        /\ out.ok <=> (InLen(raw, 10, 200)
                       /\ \A i \in 1..Len(raw) :
                              raw[i] \in (65..90) \cup (97..122) \cup (48..57) \cup {45, 95})
        /\ out.ok => \A i \in 1..Len(out.value) :
                         out.value[i] \in (65..90) \cup (97..122) \cup (48..57) \cup {45, 95}
        /\ (\E i \in 1..Len(raw) :
                raw[i] \notin (65..90) \cup (97..122) \cup (48..57) \cup {45, 95})
               => out.error = "Invalid token format"

\* the rule of C6 for one field: input s, outcome r
CredentialRule(s, r) ==
    LET t == strip(s)
    IN  /\ r.ok <=> (InLen(t, 10, 200)
                     /\ \A i \in 1..Len(t) :
                            t[i] \in (65..90) \cup (97..122) \cup (48..57))
        /\ r.ok => r.value = t
        /\ (InLen(t, 10, 200) /\ \E i \in 1..Len(t) : t[i] = 45)
               => r.error = "API credentials contain invalid characters"

\* C6: api_key and api_secret go through one predicate: the same string
\* gets the same outcome in both fields, a credential is accepted iff its
\* trimmed form has 10 to 200 characters, all of [A-Za-z0-9], the stored
\* value is the trimmed form, and a credential of valid length with a "-"
\* fails with 'API credentials contain invalid characters'.
C6_OneCredentialRule ==
    Ran("APIKeysUpdate") =>
        /\ CredentialRule(raw.api_key, out.api_key)
        /\ CredentialRule(raw.api_secret, out.api_secret)
        /\ raw.api_key = raw.api_secret => out.api_key = out.api_secret
        /\ out.ok <=> (out.api_key.ok /\ out.api_secret.ok)

\* the same credential with whitespace around it in both fields is stored
\* trimmed in both
C6_Witness ==
    /\ Ran("APIKeysUpdate")
    /\ raw.api_key = raw.api_secret
    /\ out.ok
    /\ out.api_key.value # raw.api_key
    /\ out.api_secret.value = strip(raw.api_secret)

\* s is two to ten capital letters followed by USDT
IsUsdtPair(s) ==
    \E n \in 2..10 :
        /\ Len(s) = n + 4
        /\ \A k \in 1..n : s[k] \in 65..90
        /\ s[n + 1] = 85 /\ s[n + 2] = 83 /\ s[n + 3] = 68 /\ s[n + 4] = 84

\* C7: BotControl is built exactly when action is 'start' or 'stop' and
\* symbol is absent (left null) or, uppercased and trimmed, fully matches
\* [A-Z]{2,10}USDT; the stored symbol is the uppercased trimmed form; any
\* other action is reported as such; a symbol of 3 to 20 characters that
\* is not such a pair fails with 'Invalid symbol format'.
C7_BotControlRule ==
    Ran("BotControl") =>
        LET u == strip(upper(raw.symbol.str))
        IN  /\ out.ok <=> /\ raw.action \in {"start", "stop"}
                          /\ raw.symbol.isNone \/ IsUsdtPair(u)
            /\ (out.ok /\ raw.symbol.isNone) => out.symbol.value = None
            /\ (out.ok /\ ~raw.symbol.isNone) => out.symbol.value = Str(u)
            /\ raw.action \notin {"start", "stop"}
                   => out.action.error = "Action must be either \"start\" or \"stop\""
            /\ (~raw.symbol.isNone /\ InLen(u, 3, 20) /\ ~IsUsdtPair(u))
                   => out.symbol.error = "Invalid symbol format. Must be like BTCUSDT"

\* btcusdt becomes BTCUSDT
C7_Witness ==
    /\ Ran("BotControl")
    /\ out.ok
    /\ raw.symbol = Str(<<98, 116, 99, 117, 115, 100, 116>>)
    /\ out.symbol.value = Str(<<66, 84, 67, 85, 83, 68, 84>>)

\* lo <= v <= hi for a float v
Between(v, lo, hi) == v.k = "fin" /\ lo <= v.x /\ v.x <= hi

\* C8: every BotSettings that is built, with fields given or defaulted,
\* has 10 <= order_size_usdt <= 1000, 1 <= leverage <= 20,
\* 1 <= stop_loss_percent <= 10, 2 <= take_profit_percent <= 20 and a
\* timeframe among 1m, 5m, 15m, 1h, 4h.
C8_SettingsInRange ==
    (Ran("BotSettings") /\ out.ok) =>
        /\ Between(out.order_size_usdt.value, 10, 1000)
        /\ out.leverage.value >= 1 /\ out.leverage.value <= 20
        /\ Between(out.stop_loss_percent.value, 1, 10)
        /\ Between(out.take_profit_percent.value, 2, 20)
        /\ out.timeframe.value \in {"1m", "5m", "15m", "1h", "4h"}

\* C9: in UserRegister and in PasswordReset alike, an input that is a
\* valid email up to surrounding whitespace and letter case is accepted
\* and stored trimmed and lowercased, and every stored email fully matches
\* the pattern, with no whitespace at either end.
C9_EmailTrimmedAndLowercased ==
    (Ran("UserRegister.email") \/ Ran("PasswordReset.email")) =>
        /\ EmailBody(strip(raw)) => (out.ok /\ out.value = lower(strip(raw)))
        /\ out.ok => /\ EmailBody(out.value)
                     /\ ~IsSpace(out.value[1])
                     /\ ~IsSpace(out.value[Len(out.value)])

\* C10: an email that a validator accepted is accepted again by the same
\* validator, which returns it unchanged.
C10_EmailIdempotent ==
    pc = "redone" => (again.ok /\ again.value = out.value)

\* an uppercase email was lowercased, then validated once more
C10_Witness ==
    /\ pc = "redone"
    /\ validator = "PasswordReset.email"
    /\ out.value # raw
    /\ again.ok

====
